---- MODULE Spec2Model ----
(***************************************************************************)
(* Model of eol-date: the boolean-or-date value decoding of internal/api   *)
(* (Date, EOLValue, LTSValue), the relative-date projection of internal/ui *)
(* (formatDuration, formatRelease, formatSupport, formatEOL), the display  *)
(* rows and the four renderers behind ui.DisplayCycles, the product search *)
(* (FindExact, FindSimilar) and the command's run function.                *)
(*                                                                         *)
(* Time.  A time.Time is the number of whole hours since the zero time     *)
(* 0001-01-01T00:00:00Z, so time.Time{} is 0 and IsZero(t) is t = 0.  The   *)
(* time.Duration is kept to the nanosecond, as hours, seconds and          *)
(* nanoseconds, with its int64 range (MaxDuration, MinDuration, saturation *)
(* in Sub and the wrap of the negation of MinDuration).  Every location is *)
(* UTC.                                                                    *)
(*                                                                         *)
(* Text.  The content of a JSON string is a sequence of one-character      *)
(* strings, so that time.Parse is modelled character by character; text    *)
(* the program produces (labels, formatted dates) is a TLA+ string.        *)
(***************************************************************************)
EXTENDS Integers, Sequences, FiniteSets, TLC

VARIABLES
    now,        \* the wall clock (time.Now), hours since the zero time
    release,    \* Cycle.ReleaseDate.Time
    eol,        \* Cycle.EOL      (EOLValue)
    support,    \* Cycle.Support  (EOLValue)
    lts,        \* Cycle.LTS      (LTSValue)
    op,         \* the operation that ran last ("" before the first)
    wire,       \* the JSON wire value the last UnmarshalJSON was given
    fresh,      \* TRUE when the receiver of the last UnmarshalJSON was a zero value
    err,        \* the error the last UnmarshalJSON returned ("nil" or a message)
    calls,      \* number of UnmarshalJSON calls made so far
    span,       \* the time.Duration formatDuration is given
    text,       \* the string the last formatDuration returned
    flag,       \* the bool the last IsEOL / IsLTS returned
    label,      \* the relativeDate the last formatRelease/Support/EOL returned
    ticks,      \* hours the clock has advanced since the initial state
    display,    \* one call of ui.DisplayCycles: arguments, position, rows, output
    cell,       \* one (rel, raw) pair and what the two date combiners made of it
    run,        \* one call of run (the command's action): position and outcome
    search      \* one call of search.FindSimilar: arguments and result

vars == <<now, release, eol, support, lts, op, wire, fresh, err, calls,
          span, text, flag, label, ticks, display, cell, run, search>>

cycleVars == <<release, eol, support, lts>>
decodeVars == <<wire, fresh, err, calls>>
resultVars == <<span, text, flag, label>>
commandVars == <<display, cell, run, search>>

(***************************************************************************)
(* Bounds of the model.                                                    *)
(***************************************************************************)
\* cycles in the list given to DisplayCycles
MaxCycles == 2

\* products in the list given to FindSimilar
MaxProducts == 3

\* products in the catalogue FetchProducts returns to run
MaxCatalog == 2

\* the largest limit given to FindSimilar
MaxLimit == 2

\* UnmarshalJSON calls in one behaviour of SpecDecode
MaxCalls == 2
\* formatDuration is applied to spans of 0 .. MaxSpanDays days, on whole hours
\* and a few nanoseconds below each whole day
MaxSpanDays == 820
\* number of consecutive calendar days the clock of SpecRelease starts on
NowDays == 1500
\* hours the clock advances in one behaviour of SpecProject
MaxTicks == 2

(***************************************************************************)
(* Calendar arithmetic of package time (proleptic Gregorian, UTC).         *)
(***************************************************************************)
HoursPerDay == 24

Min(a, b) == IF a < b THEN a ELSE b
Max(a, b) == IF a > b THEN a ELSE b

isLeap(year) == year % 4 = 0 /\ (year % 100 # 0 \/ year % 400 = 0)

daysIn(month, year) ==
    CASE month = 2 -> IF isLeap(year) THEN 29 ELSE 28
      [] month \in {4, 6, 9, 11} -> 30
      [] OTHER -> 31

\* days of the year before the first day of month (month in 1..13)
RECURSIVE daysBefore(_, _)
daysBefore(month, year) ==
    IF month <= 1 THEN 0
    ELSE daysBefore(month - 1, year) + daysIn(month - 1, year)

\* days from 0001-01-01 to the first day of year
daysSinceEpoch(year) ==
    365 * (year - 1) + ((year - 1) \div 4) - ((year - 1) \div 100)
        + ((year - 1) \div 400)

\* time.Date(year, month, day, hour, 0, 0, 0, time.UTC); month and day are
\* normalised the way time.Date does (month 0 is December of the year
\* before, day 31 of a 28-day month runs over into the next month).
Date(year, month, day, hour) ==
    LET m0 == month - 1
        y  == year + (m0 \div 12)
        m  == (m0 % 12) + 1
    IN  (daysSinceEpoch(y) + daysBefore(m, y) + (day - 1)) * HoursPerDay + hour

\* the civil date of a time: [year, month, day]
civil(t) ==
    LET d    == t \div HoursPerDay
        n400 == d \div 146097
        r400 == d % 146097
        n100 == Min(r400 \div 36524, 3)
        r100 == r400 - n100 * 36524
        n4   == r100 \div 1461
        r4   == r100 % 1461
        n1   == Min(r4 \div 365, 3)
        yday == r4 - n1 * 365
        y    == 1 + 400 * n400 + 100 * n100 + 4 * n4 + n1
        m    == CHOOSE k \in 1..12 :
                   daysBefore(k, y) <= yday /\ yday < daysBefore(k + 1, y)
    IN  [year |-> y, month |-> m, day |-> yday - daysBefore(m, y) + 1]

clock(t) == t % HoursPerDay

\* t.AddDate(years, months, days)
AddDate(t, years, months, days) ==
    LET c == civil(t)
    IN  Date(c.year + years, c.month + months, c.day + days, clock(t))

pad2(n) == IF n < 10 THEN "0" \o ToString(n) ELSE ToString(n)

pad4(n) ==
    IF n < 10 THEN "000" \o ToString(n)
    ELSE IF n < 100 THEN "00" \o ToString(n)
    ELSE IF n < 1000 THEN "0" \o ToString(n)
    ELSE ToString(n)

\* t.Format("2006-01-02"), for years 0 .. 9999
Format(t) ==
    LET c == civil(t)
    IN  pad4(c.year) \o "-" \o pad2(c.month) \o "-" \o pad2(c.day)

ZeroTime == 0

IsZero(t) == t = ZeroTime

(***************************************************************************)
(* time.Parse("2006-01-02", s)                                             *)
(***************************************************************************)
Digits == {"0", "1", "2", "3", "4", "5", "6", "7", "8", "9"}

digitVal(c) ==
    CASE c = "0" -> 0 [] c = "1" -> 1 [] c = "2" -> 2 [] c = "3" -> 3
      [] c = "4" -> 4 [] c = "5" -> 5 [] c = "6" -> 6 [] c = "7" -> 7
      [] c = "8" -> 8 [] c = "9" -> 9

isDigit(s, i) == i <= Len(s) /\ s[i] \in Digits

num2(s, i) == digitVal(s[i]) * 10 + digitVal(s[i + 1])

\* [ok |-> parse succeeded, t |-> the time parsed (ZeroTime on failure)]
Parse(s) ==
    LET shape == /\ Len(s) = 10
                 /\ \A i \in {1, 2, 3, 4, 6, 7, 9, 10} : isDigit(s, i)
                 /\ s[5] = "-"
                 /\ s[8] = "-"
        year  == num2(s, 1) * 100 + num2(s, 3)
        month == num2(s, 6)
        day   == num2(s, 9)
    IN  IF /\ shape
           /\ month >= 1 /\ month <= 12
           /\ day >= 1 /\ day <= daysIn(month, year)
        THEN [ok |-> TRUE, t |-> Date(year, month, day, 0)]
        ELSE [ok |-> FALSE, t |-> ZeroTime]

\* the characters of a JSON string as one string
RECURSIVE Join(_)
Join(s) == IF s = <<>> THEN "" ELSE Head(s) \o Join(Tail(s))

(***************************************************************************)
(* JSON wire values.  UnmarshalJSON is handed one syntactically valid JSON *)
(* value: kind is its JSON type, b the value of a boolean, s the content   *)
(* of a string.                                                            *)
(***************************************************************************)
WBool(b)   == [kind |-> "bool",   b |-> b,     s |-> <<>>]
WString(s) == [kind |-> "string", b |-> FALSE, s |-> s]
WNull      == [kind |-> "null",   b |-> FALSE, s |-> <<>>]
WNumber    == [kind |-> "number", b |-> FALSE, s |-> <<>>]
WObject    == [kind |-> "object", b |-> FALSE, s |-> <<>>]
WArray     == [kind |-> "array",  b |-> FALSE, s |-> <<>>]

\* "2025-10-31": a valid date, the day the clock samples lie around
S_2025_10_31 == <<"2", "0", "2", "5", "-", "1", "0", "-", "3", "1">>
\* "2027-12-31": a valid date after every clock sample
S_2027_12_31 == <<"2", "0", "2", "7", "-", "1", "2", "-", "3", "1">>
\* "2024-02-29": a valid leap day before every clock sample
S_2024_02_29 == <<"2", "0", "2", "4", "-", "0", "2", "-", "2", "9">>
\* "1700-01-01": a valid date more than 292 years before the clock samples
S_1700_01_01 == <<"1", "7", "0", "0", "-", "0", "1", "-", "0", "1">>
\* "2400-01-01": a valid date more than 292 years after the clock samples
S_2400_01_01 == <<"2", "4", "0", "0", "-", "0", "1", "-", "0", "1">>
\* "0001-01-01": a valid date that is the zero time
S_0001_01_01 == <<"0", "0", "0", "1", "-", "0", "1", "-", "0", "1">>
\* "2025-02-29": day out of range
S_2025_02_29 == <<"2", "0", "2", "5", "-", "0", "2", "-", "2", "9">>
\* "2025-13-01": month out of range
S_2025_13_01 == <<"2", "0", "2", "5", "-", "1", "3", "-", "0", "1">>
\* "2025/10/07": wrong separators
S_2025s10s07 == <<"2", "0", "2", "5", "/", "1", "0", "/", "0", "7">>
\* "2025-10-7": one-digit day
S_2025_10_7 == <<"2", "0", "2", "5", "-", "1", "0", "-", "7">>
\* "2025-10-311": extra text
S_2025_10_311 == <<"2", "0", "2", "5", "-", "1", "0", "-", "3", "1", "1">>
\* "invalid"
S_invalid == <<"i", "n", "v", "a", "l", "i", "d">>
\* ""
S_empty == <<>>

ValidDateStrings ==
    {S_2025_10_31, S_2027_12_31, S_2024_02_29, S_1700_01_01, S_2400_01_01,
     S_0001_01_01}

InvalidDateStrings ==
    {S_2025_02_29, S_2025_13_01, S_2025s10s07, S_2025_10_7, S_2025_10_311,
     S_invalid}

WireStrings == ValidDateStrings \cup InvalidDateStrings \cup {S_empty}

Wires ==
    {WBool(TRUE), WBool(FALSE), WNull, WNumber, WObject, WArray}
        \cup {WString(s) : s \in WireStrings}

(***************************************************************************)
(* encoding/json: json.Unmarshal(data, &b) and json.Unmarshal(data, &s)    *)
(* into a local variable that holds its zero value.  A JSON null leaves    *)
(* the variable alone and is no error.                                     *)
(***************************************************************************)
unmarshalBool(w) ==
    CASE w.kind = "bool" -> [err |-> "nil", b |-> w.b]
      [] w.kind = "null" -> [err |-> "nil", b |-> FALSE]
      [] OTHER -> [err |-> "json: cannot unmarshal into bool", b |-> FALSE]

unmarshalString(w) ==
    CASE w.kind = "string" -> [err |-> "nil", s |-> w.s]
      [] w.kind = "null" -> [err |-> "nil", s |-> <<>>]
      [] OTHER -> [err |-> "json: cannot unmarshal into string", s |-> <<>>]

(***************************************************************************)
(* internal/api: Date, EOLValue, LTSValue.  Each UnmarshalJSON yields      *)
(* [v |-> the receiver after the call, err |-> the error returned].        *)
(***************************************************************************)
ZeroValue == [DateValue |-> ZeroTime, IsBoolean |-> FALSE, BoolValue |-> FALSE]

\* Date.UnmarshalJSON that reports a string it cannot parse and keeps d
Date_UnmarshalJSON_Strict(d, w) ==
    LET u == unmarshalString(w)
        p == Parse(u.s)
    IN  IF u.err # "nil" THEN [v |-> d, err |-> u.err]
        ELSE IF u.s = <<>> THEN [v |-> ZeroTime, err |-> "nil"]
        ELSE IF ~p.ok THEN [v |-> d, err |-> "parsing time: cannot parse"]
        ELSE [v |-> p.t, err |-> "nil"]

Date_UnmarshalJSON(d, w) ==
    LET u == unmarshalString(w)
        p == Parse(u.s)
    IN  IF u.err # "nil" THEN [v |-> ZeroTime, err |-> "nil"]
        ELSE IF u.s = <<>> THEN [v |-> ZeroTime, err |-> "nil"]
        ELSE IF ~p.ok THEN [v |-> ZeroTime, err |-> "nil"]
        ELSE [v |-> p.t, err |-> "nil"]

\* EOLValue.UnmarshalJSON that drops the parsed date (no e.DateValue = t)
EOLValue_UnmarshalJSON_NoDate(e, w) ==
    LET ub == unmarshalBool(w)
        us == unmarshalString(w)
        p  == Parse(us.s)
    IN  IF ub.err = "nil"
        THEN [v |-> [e EXCEPT !.IsBoolean = TRUE, !.BoolValue = ub.b],
              err |-> "nil"]
        ELSE IF us.err = "nil"
        THEN IF ~p.ok
             THEN [v |-> [e EXCEPT !.BoolValue = TRUE, !.IsBoolean = TRUE],
                   err |-> "nil"]
             ELSE [v |-> [e EXCEPT !.IsBoolean = FALSE], err |-> "nil"]
        ELSE [v |-> e, err |-> "nil"]

EOLValue_UnmarshalJSON(e, w) ==
    LET ub == unmarshalBool(w)
        us == unmarshalString(w)
        p  == Parse(us.s)
    IN  IF ub.err = "nil"
        THEN [v |-> [e EXCEPT !.IsBoolean = TRUE, !.BoolValue = ub.b],
              err |-> "nil"]
        ELSE IF us.err = "nil"
        THEN IF ~p.ok
             THEN [v |-> [e EXCEPT !.BoolValue = TRUE, !.IsBoolean = TRUE],
                   err |-> "nil"]
             ELSE [v |-> [e EXCEPT !.IsBoolean = FALSE, !.DateValue = p.t],
                   err |-> "nil"]
        ELSE [v |-> e, err |-> "nil"]

\* LTSValue.UnmarshalJSON with the EOL policy for an unparseable string
LTSValue_UnmarshalJSON_AsEOL(l, w) ==
    LET ub == unmarshalBool(w)
        us == unmarshalString(w)
        p  == Parse(us.s)
    IN  IF ub.err = "nil"
        THEN [v |-> [l EXCEPT !.IsBoolean = TRUE, !.BoolValue = ub.b],
              err |-> "nil"]
        ELSE IF us.err = "nil"
        THEN IF ~p.ok
             THEN [v |-> [l EXCEPT !.BoolValue = TRUE, !.IsBoolean = TRUE],
                   err |-> "nil"]
             ELSE [v |-> [l EXCEPT !.IsBoolean = FALSE, !.DateValue = p.t],
                   err |-> "nil"]
        ELSE [v |-> l, err |-> "nil"]

LTSValue_UnmarshalJSON(l, w) ==
    LET ub == unmarshalBool(w)
        us == unmarshalString(w)
        p  == Parse(us.s)
    IN  IF ub.err = "nil"
        THEN [v |-> [l EXCEPT !.IsBoolean = TRUE, !.BoolValue = ub.b],
              err |-> "nil"]
        ELSE IF us.err = "nil"
        THEN IF ~p.ok
             THEN [v |-> [l EXCEPT !.BoolValue = FALSE, !.IsBoolean = TRUE],
                   err |-> "nil"]
             ELSE [v |-> [l EXCEPT !.IsBoolean = FALSE, !.DateValue = p.t],
                   err |-> "nil"]
        ELSE [v |-> l, err |-> "nil"]

\* t.After(u)
After(t, u) == t > u

\* IsEOL that counts the EOL instant itself as past (!Now().Before(date))
EOLValue_IsEOL_NotBefore(e, clk) ==
    IF e.IsBoolean THEN e.BoolValue
    ELSE ~IsZero(e.DateValue) /\ clk >= e.DateValue

EOLValue_IsEOL(e, clk) ==
    IF e.IsBoolean THEN e.BoolValue
    ELSE ~IsZero(e.DateValue) /\ After(clk, e.DateValue)

\* IsLTS that asks, like IsEOL, whether the date has passed
LTSValue_IsLTS_Passed(l) ==
    IF l.IsBoolean THEN l.BoolValue
    ELSE ~IsZero(l.DateValue) /\ After(now, l.DateValue)

LTSValue_IsLTS(l) ==
    IF l.IsBoolean THEN l.BoolValue
    ELSE ~IsZero(l.DateValue)

(***************************************************************************)
(* time.Duration: int64 nanoseconds, a record [hours, seconds, nanos] for  *)
(* hours * 3600e9 + seconds * 1e9 + nanos nanoseconds, the three parts of  *)
(* one sign, |seconds| < 3600 and |nanos| < 1e9 (the count of nanoseconds  *)
(* itself is wider than a number of this module).  MaxDuration is          *)
(* 2562047h47m16.854775807s and MinDuration -2562047h47m16.854775808s.     *)
(***************************************************************************)
SecondsPerHour == 3600
NanosPerSecond == 1000000000

Duration(h, s, n) == [hours |-> h, seconds |-> s, nanos |-> n]

MaxDuration == Duration(2562047, 2836, 854775807)
MinDuration == Duration(-2562047, -2836, -854775808)

\* t.Sub(u): the difference of two times of whole hours, saturated at the
\* ends of the Duration range; a difference of whole hours is representable
\* exactly when it is at most MaxDuration.hours hours either way
Sub(t, u) ==
    LET d == t - u
    IN  IF d > MaxDuration.hours THEN MaxDuration
        ELSE IF d < MinDuration.hours THEN MinDuration
        ELSE Duration(d, 0, 0)

\* -d in int64: the negation of MinDuration wraps to MinDuration
Neg(d) ==
    IF d = MinDuration THEN MinDuration
    ELSE Duration(-d.hours, -d.seconds, -d.nanos)

\* d > 0
Positive(d) == d.hours > 0 \/ d.seconds > 0 \/ d.nanos > 0

\* Go's integer division and remainder truncate toward zero
TruncDiv(a, b) == IF a >= 0 THEN a \div b ELSE -((-a) \div b)
TruncMod(a, b) == a - b * TruncDiv(a, b)

Abs(n) == IF n < 0 THEN -n ELSE n

RECURSIVE exponent(_)
\* the binary exponent e of a float64 x >= 1: 2^e <= x < 2^(e+1)
exponent(x) == IF x < 2 THEN 0 ELSE 1 + exponent(x \div 2)

\* "hour := d / Hour; nsec := d % Hour;
\*  return float64(hour) + float64(nsec)/(60*60*1e9)": whether the float64 sum
\* is rounded away from zero to the next whole hour.  Between 2^e and 2^(e+1)
\* hours the float64 values are 2^(e-52) hours apart and an hour is
\* 2^13 * 9 * 5^11 nanoseconds, so a span that ends k >= 1 nanoseconds
\* before the next whole hour is rounded to that hour exactly when
\* k * 2^(40-e) < 9 * 5^11 = 439453125; the product is odd, so no span lies
\* half-way, and k <= 439453125 div 2^(40-e) says the same.
roundsUp(d) ==
    LET e == exponent(Abs(d.hours))
        k == NanosPerSecond - Abs(d.nanos)
    IN  /\ Abs(d.seconds) = SecondsPerHour - 1
        /\ e >= 10
        /\ k <= 439453125 \div 2^(40 - e)

\* the whole hours of the float64 d.Hours(); what is left of its fraction
\* does not survive int(d.Hours() / 24)
wholeHours(d) ==
    IF ~roundsUp(d) THEN d.hours
    ELSE IF d.hours >= 0 THEN d.hours + 1
    ELSE d.hours - 1

(***************************************************************************)
(* internal/ui: formatDuration and the relative-date projections.          *)
(***************************************************************************)
formatDuration(d) ==
    LET days   == TruncDiv(wholeHours(d), HoursPerDay)
        months == TruncDiv(days, 30)
        years  == TruncDiv(months, 12)
        remainingMonths == TruncMod(months, 12)
    IN  IF years > 0
        THEN IF remainingMonths > 0
             THEN ToString(years) \o "y " \o ToString(remainingMonths) \o "m"
             ELSE ToString(years) \o "y"
        ELSE IF months > 0 THEN ToString(months) \o "m"
        ELSE IF days > 0 THEN ToString(days) \o "d"
        ELSE "<1d"

relativeDate(relative, date) == [relative |-> relative, date |-> date]

formatRelease(t, clk) ==
    IF IsZero(t) THEN relativeDate("", "")
    ELSE LET diff == Sub(clk, t)
         IN  relativeDate(formatDuration(diff) \o " ago", Format(t))

\* formatSupport with the flag labels of formatEOL
formatSupport_AsEOL(v, clk) ==
    IF v.IsBoolean
    THEN IF v.BoolValue THEN relativeDate("Ended", "")
         ELSE relativeDate("Active", "")
    ELSE IF IsZero(v.DateValue) THEN relativeDate("", "")
    ELSE LET diff == Sub(v.DateValue, clk)
         IN  IF Positive(diff)
             THEN relativeDate("in " \o formatDuration(diff),
                               Format(v.DateValue))
             ELSE relativeDate(formatDuration(Neg(diff)) \o " ago",
                               Format(v.DateValue))

formatSupport(v, clk) ==
    IF v.IsBoolean
    THEN IF v.BoolValue THEN relativeDate("Active", "")
         ELSE relativeDate("-", "")
    ELSE IF IsZero(v.DateValue) THEN relativeDate("", "")
    ELSE LET diff == Sub(v.DateValue, clk)
         IN  IF Positive(diff)
             THEN relativeDate("in " \o formatDuration(diff),
                               Format(v.DateValue))
             ELSE relativeDate(formatDuration(Neg(diff)) \o " ago",
                               Format(v.DateValue))

\* formatEOL without a relative label for a date
formatEOL_DateOnly(v, clk) ==
    IF v.IsBoolean
    THEN IF v.BoolValue THEN relativeDate("Ended", "")
         ELSE relativeDate("Active", "")
    ELSE IF IsZero(v.DateValue) THEN relativeDate("", "")
    ELSE relativeDate("", Format(v.DateValue))

formatEOL(v, clk) ==
    IF v.IsBoolean
    THEN IF v.BoolValue THEN relativeDate("Ended", "")
         ELSE relativeDate("Active", "")
    ELSE IF IsZero(v.DateValue) THEN relativeDate("", "")
    ELSE LET diff == Sub(v.DateValue, clk)
         IN  IF Positive(diff)
             THEN relativeDate("in " \o formatDuration(diff),
                               Format(v.DateValue))
             ELSE relativeDate(formatDuration(Neg(diff)) \o " ago",
                               Format(v.DateValue))

(***************************************************************************)
(* Initial values shared by the specifications.                            *)
(***************************************************************************)
\* the clock of the specifications that do not start on a range of days
NowBase == Date(2025, 10, 30, 23)

NoLabel == relativeDate("", "")

\* the labels of the cycle prepareDisplayRows is working on
NoPart == [release |-> NoLabel, support |-> NoLabel, eol |-> NoLabel]

\* the values of display, cell, run and search while no call of theirs is made
NoDisplay ==
    [product |-> "", cycles |-> <<>>, showAll |-> FALSE, format |-> "",
     pc |-> "idle", i |-> 0, stage |-> "", part |-> NoPart, rows |-> <<>>,
     filterAt |-> <<>>, out |-> <<>>, invoked |-> <<>>,
     widths |-> [released |-> 0, support |-> 0, eol |-> 0],
     activeCount |-> 0, eolCount |-> 0]

NoCell == [rel |-> "", raw |-> "", markdown |-> "", html |-> "", ran |-> {}]

NoRun ==
    [pc |-> "idle", nargs |-> 0, query |-> <<>>, showAll |-> FALSE,
     format |-> "",
     calls |-> [FetchProducts |-> "none", SelectProduct |-> "none",
                FetchProduct |-> "none"],
     products |-> <<>>, matches |-> <<>>, product |-> <<>>, cycles |-> <<>>,
     err |-> "nil", displayed |-> <<>>, stderr |-> <<>>, exit |-> -1]

NoSearch ==
    [pc |-> "idle", products |-> <<>>, query |-> <<>>, limit |-> 0,
     result |-> [panic |-> FALSE, items |-> <<>>, isNil |-> TRUE],
     exact |-> [match |-> <<>>, found |-> FALSE]]

InitCommand ==
    /\ display = NoDisplay
    /\ cell = NoCell
    /\ run = NoRun
    /\ search = NoSearch

InitResults ==
    /\ op = ""
    /\ wire = WNull
    /\ fresh = FALSE
    /\ err = "nil"
    /\ calls = 0
    /\ span = Duration(0, 0, 0)
    /\ text = ""
    /\ flag = FALSE
    /\ label = NoLabel
    /\ ticks = 0

(***************************************************************************)
(* SpecDecode: the fields of one Cycle are decoded from JSON wire values,  *)
(* starting from the zero Cycle.  A field is decoded again when its key    *)
(* is repeated in the JSON object.                                         *)
(***************************************************************************)
InitDecode ==
    /\ now = NowBase
    /\ release = ZeroTime
    /\ eol = ZeroValue
    /\ support = ZeroValue
    /\ lts = ZeroValue
    /\ InitResults
    /\ InitCommand

UnmarshalReleaseDate(w) ==
    /\ calls < MaxCalls
    /\ LET r == Date_UnmarshalJSON(release, w)
       IN  /\ release' = r.v
           /\ err' = r.err
    /\ fresh' = (release = ZeroTime)
    /\ op' = "releaseDate"
    /\ wire' = w
    /\ calls' = calls + 1
    /\ UNCHANGED <<now, eol, support, lts, resultVars, ticks>>
    /\ UNCHANGED commandVars

UnmarshalEOL(w) ==
    /\ calls < MaxCalls
    /\ LET r == EOLValue_UnmarshalJSON(eol, w)
       IN  /\ eol' = r.v
           /\ err' = r.err
    /\ fresh' = (eol = ZeroValue)
    /\ op' = "eol"
    /\ wire' = w
    /\ calls' = calls + 1
    /\ UNCHANGED <<now, release, support, lts, resultVars, ticks>>
    /\ UNCHANGED commandVars

UnmarshalSupport(w) ==
    /\ calls < MaxCalls
    /\ LET r == EOLValue_UnmarshalJSON(support, w)
       IN  /\ support' = r.v
           /\ err' = r.err
    /\ fresh' = (support = ZeroValue)
    /\ op' = "support"
    /\ wire' = w
    /\ calls' = calls + 1
    /\ UNCHANGED <<now, release, eol, lts, resultVars, ticks>>
    /\ UNCHANGED commandVars

UnmarshalLTS(w) ==
    /\ calls < MaxCalls
    /\ LET r == LTSValue_UnmarshalJSON(lts, w)
       IN  /\ lts' = r.v
           /\ err' = r.err
    /\ fresh' = (lts = ZeroValue)
    /\ op' = "lts"
    /\ wire' = w
    /\ calls' = calls + 1
    /\ UNCHANGED <<now, release, eol, support, resultVars, ticks>>
    /\ UNCHANGED commandVars

NextDecode ==
    \E w \in Wires :
        \/ UnmarshalReleaseDate(w)
        \/ UnmarshalEOL(w)
        \/ UnmarshalSupport(w)
        \/ UnmarshalLTS(w)

SpecDecode == InitDecode /\ [][NextDecode]_vars

(***************************************************************************)
(* Properties of the decoding (SpecDecode).                                *)
(***************************************************************************)
\* the receiver of the last UnmarshalJSON of an EOLValue or LTSValue
Decoded ==
    CASE op = "eol" -> eol
      [] op = "support" -> support
      [] op = "lts" -> lts
      [] OTHER -> ZeroValue

Flag(b) == [DateValue |-> ZeroTime, IsBoolean |-> TRUE, BoolValue |-> b]

IsValidDateWire(w) == w.kind = "string" /\ w.s \in ValidDateStrings

\* C1: EOLValue.UnmarshalJSON on a zero value (EOL or Support field): a JSON
\* boolean b gives the flag variant with BoolValue = b and a zero date; a
\* JSON string that is a YYYY-MM-DD date gives the date variant whose date
\* is that day at 00:00 UTC.
C1_DecodeBoolOrDate ==
    (op \in {"eol", "support"} /\ fresh) =>
        /\ wire.kind = "bool" => Decoded = Flag(wire.b)
        /\ IsValidDateWire(wire) =>
              /\ ~Decoded.IsBoolean
              /\ Format(Decoded.DateValue) = Join(wire.s)
              /\ clock(Decoded.DateValue) = 0

C1_Witness ==
    /\ op = "support" /\ fresh
    /\ wire = WString(S_2024_02_29)
    /\ ~support.IsBoolean
    /\ support.DateValue = Date(2024, 2, 29, 0)

\* C2: a non-empty string that is no valid date decodes, on a zero value and
\* without error, to Flag(true) for an EOL or Support field and to
\* Flag(false) for an LTS field; the date stays zero.
C2_InvalidStringAsymmetry ==
    (/\ op \in {"eol", "support", "lts"} /\ fresh
     /\ wire.kind = "string" /\ wire.s \in InvalidDateStrings) =>
        /\ err = "nil"
        /\ Decoded = Flag(op # "lts")

C2_Witness ==
    /\ op = "lts" /\ fresh
    /\ wire = WString(S_invalid)
    /\ lts = Flag(FALSE)

\* C3: the empty JSON string decodes, on a zero value, to the unknown state
\* (IsBoolean = false, zero date) for an EOL, Support or LTS field.
C3_EmptyStringUnknown ==
    (op \in {"eol", "support", "lts"} /\ fresh /\ wire = WString(S_empty)) =>
        Decoded = ZeroValue

\* C4: every UnmarshalJSON returns a nil error for every wire value, and a
\* Date given anything but a valid YYYY-MM-DD string becomes the zero time.
C4_DecodeTotal ==
    /\ op \in {"releaseDate", "eol", "support", "lts"} => err = "nil"
    /\ (op = "releaseDate" /\ ~IsValidDateWire(wire)) => release = ZeroTime

C4_Witness ==
    /\ op = "releaseDate" /\ ~fresh
    /\ wire = WString(S_2025s10s07)
    /\ release = ZeroTime
    /\ err = "nil"

(***************************************************************************)
(* SpecProject: one decoded Cycle is projected while the clock advances:   *)
(* IsEOL, IsLTS, formatRelease, formatSupport and formatEOL each read the  *)
(* clock when they are called.                                             *)
(***************************************************************************)
ClockSamples == {NowBase, Date(2026, 10, 31, 12)}

ReleaseWires == {WString(S_2024_02_29), WString(S_1700_01_01), WNull}

EOLWires ==
    {WBool(TRUE), WBool(FALSE), WNumber, WString(S_2025_10_31),
     WString(S_2027_12_31), WString(S_2024_02_29), WString(S_1700_01_01),
     WString(S_2400_01_01)}

SupportWires ==
    {WBool(TRUE), WBool(FALSE), WObject, WString(S_2025_10_31),
     WString(S_2027_12_31)}

LTSWires == {WBool(TRUE), WBool(FALSE), WArray, WString(S_2027_12_31),
             WString(S_2024_02_29)}

InitProject ==
    /\ now \in ClockSamples
    /\ \E w \in ReleaseWires : release = Date_UnmarshalJSON(ZeroTime, w).v
    /\ \E w \in EOLWires : eol = EOLValue_UnmarshalJSON(ZeroValue, w).v
    /\ \E w \in SupportWires : support = EOLValue_UnmarshalJSON(ZeroValue, w).v
    /\ \E w \in LTSWires : lts = LTSValue_UnmarshalJSON(ZeroValue, w).v
    /\ InitResults
    /\ InitCommand

\* the wall clock advances by one hour; results computed earlier are dropped
Tick ==
    /\ ticks < MaxTicks
    /\ now' = now + 1
    /\ ticks' = ticks + 1
    /\ op' = "tick"
    /\ flag' = FALSE
    /\ label' = NoLabel
    /\ UNCHANGED <<cycleVars, decodeVars, span, text>>
    /\ UNCHANGED commandVars

IsEOL ==
    /\ flag' = EOLValue_IsEOL(eol, now)
    /\ op' = "IsEOL"
    /\ UNCHANGED <<now, cycleVars, decodeVars, span, text, label, ticks>>
    /\ UNCHANGED commandVars

IsLTS ==
    /\ flag' = LTSValue_IsLTS(lts)
    /\ op' = "IsLTS"
    /\ UNCHANGED <<now, cycleVars, decodeVars, span, text, label, ticks>>
    /\ UNCHANGED commandVars

FormatRelease ==
    /\ label' = formatRelease(release, now)
    /\ op' = "formatRelease"
    /\ UNCHANGED <<now, cycleVars, decodeVars, span, text, flag, ticks>>
    /\ UNCHANGED commandVars

FormatSupport ==
    /\ label' = formatSupport(support, now)
    /\ op' = "formatSupport"
    /\ UNCHANGED <<now, cycleVars, decodeVars, span, text, flag, ticks>>
    /\ UNCHANGED commandVars

FormatEOL ==
    /\ label' = formatEOL(eol, now)
    /\ op' = "formatEOL"
    /\ UNCHANGED <<now, cycleVars, decodeVars, span, text, flag, ticks>>
    /\ UNCHANGED commandVars

NextProject ==
    \/ Tick
    \/ IsEOL
    \/ IsLTS
    \/ FormatRelease
    \/ FormatSupport
    \/ FormatEOL

SpecProject == InitProject /\ [][NextProject]_vars

(***************************************************************************)
(* SpecDuration: formatDuration applied to a span.                         *)
(***************************************************************************)
\* nanoseconds a sampled span ends before a whole day
Shortfalls == {1, 2, 4}

Spans ==
    {Duration(day * HoursPerDay + h, 0, 0) :
         day \in 0..MaxSpanDays, h \in {0, 12, 23}}
        \cup {Duration(day * HoursPerDay - 1, SecondsPerHour - 1,
                        NanosPerSecond - k) :
                  day \in 1..MaxSpanDays, k \in Shortfalls}
        \cup {MaxDuration, MinDuration, Duration(-1, 0, 0),
              Duration(-HoursPerDay, 0, 0), Duration(-400 * HoursPerDay, 0, 0)}

InitDuration ==
    /\ now = NowBase
    /\ release = ZeroTime
    /\ eol = ZeroValue
    /\ support = ZeroValue
    /\ lts = ZeroValue
    /\ op = ""
    /\ wire = WNull
    /\ fresh = FALSE
    /\ err = "nil"
    /\ calls = 0
    /\ span \in Spans
    /\ text = ""
    /\ flag = FALSE
    /\ label = NoLabel
    /\ ticks = 0
    /\ InitCommand

FormatDuration ==
    /\ text' = formatDuration(span)
    /\ op' = "formatDuration"
    /\ UNCHANGED <<now, cycleVars, decodeVars, span, flag, label, ticks>>
    /\ UNCHANGED commandVars

NextDuration == FormatDuration

SpecDuration == InitDuration /\ [][NextDuration]_vars

(***************************************************************************)
(* SpecRelease: formatRelease of the date three calendar months before     *)
(* the clock, for a clock on each day of a range of years                  *)
(* (TestFormatRelease, "recent release").                                  *)
(***************************************************************************)
NowFirst == Date(2024, 1, 1, 0)

InitRelease ==
    /\ now \in {NowFirst + k * HoursPerDay + h : k \in 0..(NowDays - 1),
                                                 h \in {0, 13}}
    /\ release = AddDate(now, 0, -3, 0)
    /\ eol = ZeroValue
    /\ support = ZeroValue
    /\ lts = ZeroValue
    /\ InitResults
    /\ InitCommand

NextRelease == FormatRelease

SpecRelease == InitRelease /\ [][NextRelease]_vars

(***************************************************************************)
(* Properties of IsEOL and IsLTS (SpecProject).                            *)
(***************************************************************************)
\* C5: IsEOL of a flag variant is the flag; of a date variant it is true
\* exactly when the date is not zero and the clock is strictly after it.
C5_IsEOL ==
    op = "IsEOL" =>
        flag = IF eol.IsBoolean THEN eol.BoolValue
               ELSE eol.DateValue # ZeroTime /\ now > eol.DateValue

\* the clock stands exactly on the EOL date: not yet end of life
C5_Witness ==
    /\ op = "IsEOL"
    /\ ~eol.IsBoolean
    /\ eol.DateValue = Date(2025, 10, 31, 0)
    /\ now = eol.DateValue
    /\ flag = FALSE

\* C6: IsLTS of a flag variant is the flag; of a date variant it is true
\* exactly when the date is not zero, whether that date is past or future.
C6_IsLTS ==
    op = "IsLTS" =>
        flag = IF lts.IsBoolean THEN lts.BoolValue
               ELSE lts.DateValue # ZeroTime

\* an LTS start date in the future still means LTS
C6_Witness ==
    /\ op = "IsLTS"
    /\ ~lts.IsBoolean
    /\ lts.DateValue > now
    /\ flag = TRUE

(***************************************************************************)
(* Properties of formatDuration (SpecDuration).                            *)
(***************************************************************************)
\* a span of zero or more nanoseconds
NonNegative(d) == d.hours >= 0 /\ d.seconds >= 0 /\ d.nanos >= 0

\* the label C7 states, from floor divisions of the span (hours, seconds
\* and nanoseconds, so floor(span / 24h) is the floor of hours / 24)
DurationLabel(d) ==
    LET days   == d.hours \div HoursPerDay
        months == days \div 30
        years  == months \div 12
    IN  IF days = 0 THEN "<1d"
        ELSE IF days < 30 THEN ToString(days) \o "d"
        ELSE IF months < 12 THEN ToString(months) \o "m"
        ELSE IF months % 12 = 0 THEN ToString(years) \o "y"
        ELSE ToString(years) \o "y " \o ToString(months % 12) \o "m"

\* C7: on every non-negative span formatDuration returns "<1d", "{days}d",
\* "{months}m", "{years}y" or "{years}y {months mod 12}m" from days =
\* floor(span / 24h), months = days div 30, years = months div 12; 365 days
\* give "1y", 730 days "2y", 800 days "2y 2m".
C7_FormatDuration ==
    (op = "formatDuration" /\ NonNegative(span)) =>
        /\ text = DurationLabel(span)
        /\ span = Duration(365 * HoursPerDay, 0, 0) => text = "1y"
        /\ span = Duration(730 * HoursPerDay, 0, 0) => text = "2y"
        /\ span = Duration(800 * HoursPerDay, 0, 0) => text = "2y 2m"

(***************************************************************************)
(* Properties of formatRelease three calendar months back (SpecRelease).   *)
(***************************************************************************)
\* whole days between the release date and the clock
ElapsedDays == (now - release) \div HoursPerDay

\* C8: for every current date, formatRelease of the date three calendar
\* months before now (89 to 92 days back) returns the relative label
\* "3m ago".
C8_ThreeMonthsAgo ==
    op = "formatRelease" =>
        /\ ElapsedDays \in 89..92
        /\ label.date = Format(release)
        /\ label.relative = "3m ago"

(***************************************************************************)
(* Properties of formatSupport and formatEOL (SpecProject).                *)
(***************************************************************************)
\* C9: a flag variant projects to an empty absolute date and the relative
\* label of its field: Support true "Active", false "-"; EOL true "Ended",
\* false "Active".
C9_FlagLabels ==
    /\ (op = "formatSupport" /\ support.IsBoolean) =>
          label = relativeDate(IF support.BoolValue THEN "Active" ELSE "-", "")
    /\ (op = "formatEOL" /\ eol.IsBoolean) =>
          label = relativeDate(IF eol.BoolValue THEN "Ended" ELSE "Active", "")

C9_Witness ==
    /\ op = "formatSupport"
    /\ support = Flag(FALSE)
    /\ label = relativeDate("-", "")

\* the value the last formatSupport / formatEOL projected
Projected == IF op = "formatSupport" THEN support ELSE eol

\* C10: for a date variant with non-zero date d, formatEOL and formatSupport
\* return, with diff = d - now, the relative label "in " + formatDuration(diff)
\* when diff > 0 and formatDuration(-diff) + " ago" otherwise, and the
\* absolute date d as YYYY-MM-DD; a zero date gives two empty strings.
C10_DateLabels ==
    (op \in {"formatSupport", "formatEOL"} /\ ~Projected.IsBoolean) =>
        LET d    == Projected.DateValue
            diff == d - now
        IN  IF d = ZeroTime THEN label = relativeDate("", "")
            ELSE /\ label.date = Format(d)
                 /\ label.relative =
                       IF diff > 0
                       THEN "in " \o formatDuration(Duration(diff, 0, 0))
                       ELSE formatDuration(Duration(-diff, 0, 0)) \o " ago"

(***************************************************************************)
(* Properties of formatRelease (SpecProject).                              *)
(***************************************************************************)
\* C11: formatRelease returns two empty strings for the zero time, and for a
\* non-zero release date the relative label formatDuration(now - date) +
\* " ago" with the absolute date as YYYY-MM-DD.
C11_ReleaseLabel ==
    op = "formatRelease" =>
        IF release = ZeroTime THEN label = relativeDate("", "")
        ELSE /\ label.date = Format(release)
             /\ label.relative =
                   formatDuration(Duration(now - release, 0, 0)) \o " ago"

(***************************************************************************)
(* Display rows (internal/ui prepareDisplayRows).                          *)
(*                                                                         *)
(* A Cycle is a record [Cycle, Latest, ReleaseDate, EOL, Support, LTS];    *)
(* ReleaseDate is the time.Time inside the api.Date.                       *)
(***************************************************************************)
\* the raw text of a boolean-or-date value
formatRawValue_Blank(v) ==
    IF v.IsBoolean THEN (IF v.BoolValue THEN "true" ELSE "")
    ELSE IF IsZero(v.DateValue) THEN ""
    ELSE Format(v.DateValue)

formatRawValue(v) ==
    IF v.IsBoolean THEN (IF v.BoolValue THEN "true" ELSE "false")
    ELSE IF IsZero(v.DateValue) THEN ""
    ELSE Format(v.DateValue)

\* the loop's filter: "if !showAll && c.EOL.IsEOL() { continue }"
skipCycle_Active(c, showAll, clk) == ~showAll /\ ~EOLValue_IsEOL(c.EOL, clk)

skipCycle(c, showAll, clk) == ~showAll /\ EOLValue_IsEOL(c.EOL, clk)

\* the displayRow literal; clk is the clock reading of its c.EOL.IsEOL()
displayRow(c, releaseLabel, supportLabel, eolLabel, clk) ==
    [Cycle |-> c.Cycle,
     Latest |-> c.Latest,
     ReleasedRel |-> releaseLabel.relative,
     ReleasedRaw |-> releaseLabel.date,
     SupportRel |-> supportLabel.relative,
     SupportRaw |-> formatRawValue(c.Support),
     EOLRel |-> eolLabel.relative,
     EOLRaw |-> formatRawValue(c.EOL),
     LTS |-> LTSValue_IsLTS(c.LTS),
     IsEOL |-> EOLValue_IsEOL(c.EOL, clk)]

\* "rows = append(rows, row)"
appendRow(rows, row) == Append(rows, row)

(***************************************************************************)
(* Renderers (internal/ui formatAsMarkdown, formatAsCSV, formatAsHTML,     *)
(* formatAsTable).  The output is a sequence of lines; a line is a         *)
(* sequence of strings: one string for a printed line of text, the fields  *)
(* for a CSV record (csv.Writer's quoting of a field is not modelled), the *)
(* cells for a row of the lipgloss table (its borders and colours are not  *)
(* modelled).                                                              *)
(***************************************************************************)
\* the LTS mark, U+2714 HEAVY CHECK MARK, written by its code point
CheckMark == "U+2714"

Line(s) == <<s>>

formatMarkdownDate(rel, raw) ==
    IF rel = "" /\ raw = "" THEN ""
    ELSE IF raw = "" \/ raw = "true" \/ raw = "false" THEN rel
    ELSE IF rel = "" THEN raw
    ELSE rel \o " (" \o raw \o ")"

formatHTMLDate_RawFirst(rel, raw) ==
    IF rel = "" /\ raw = "" THEN ""
    ELSE IF rel = "" THEN raw
    ELSE IF raw = "" \/ raw = "true" \/ raw = "false" THEN rel
    ELSE rel \o " (" \o raw \o ")"

formatHTMLDate(rel, raw) ==
    IF rel = "" /\ raw = "" THEN ""
    ELSE IF raw = "" \/ raw = "true" \/ raw = "false" THEN rel
    ELSE IF rel = "" THEN raw
    ELSE rel \o " (" \o raw \o ")"

markdownRow(r) ==
    Line("| " \o r.Cycle \o " | " \o r.Latest
         \o " | " \o formatMarkdownDate(r.ReleasedRel, r.ReleasedRaw)
         \o " | " \o formatMarkdownDate(r.SupportRel, r.SupportRaw)
         \o " | " \o formatMarkdownDate(r.EOLRel, r.EOLRaw)
         \o " | " \o (IF r.LTS THEN CheckMark ELSE "") \o " |")

formatAsMarkdown(product, rows) ==
    <<Line("# Release cycles for " \o product), Line(""),
      Line("| CYCLE | LATEST | RELEASED | SUPPORT | EOL | LTS |"),
      Line("|-------|--------|----------|---------|-----|-----|")>>
        \o [k \in 1..Len(rows) |-> markdownRow(rows[k])]

CSVHeader == <<"CYCLE", "LATEST", "RELEASED", "SUPPORT", "EOL", "LTS">>

csvRecord_Relative(r) ==
    <<r.Cycle, r.Latest, r.ReleasedRel, r.SupportRel, r.EOLRel,
      IF r.LTS THEN "true" ELSE "false">>

csvRecord(r) ==
    <<r.Cycle, r.Latest, r.ReleasedRaw, r.SupportRaw, r.EOLRaw,
      IF r.LTS THEN "true" ELSE "false">>

formatAsCSV(rows) ==
    <<CSVHeader>> \o [k \in 1..Len(rows) |-> csvRecord(rows[k])]

htmlRow(r) ==
    Line("    <tr style=\"color: " \o (IF r.IsEOL THEN "red" ELSE "green")
         \o ";\"><td>" \o r.Cycle \o "</td><td>" \o r.Latest
         \o "</td><td>" \o formatHTMLDate(r.ReleasedRel, r.ReleasedRaw)
         \o "</td><td>" \o formatHTMLDate(r.SupportRel, r.SupportRaw)
         \o "</td><td>" \o formatHTMLDate(r.EOLRel, r.EOLRaw)
         \o "</td><td>" \o (IF r.LTS THEN CheckMark ELSE "")
         \o "</td></tr>")

formatAsHTML(product, rows) ==
    <<Line("<h1>Release cycles for " \o product \o "</h1>"),
      Line("<table>"), Line("  <thead>"),
      Line("    <tr><th>CYCLE</th><th>LATEST</th><th>RELEASED</th><th>SUPPORT</th><th>EOL</th><th>LTS</th></tr>"),
      Line("  </thead>"), Line("  <tbody>")>>
        \o [k \in 1..Len(rows) |-> htmlRow(rows[k])]
        \o <<Line("  </tbody>"), Line("</table>")>>

RECURSIVE Repeat(_, _)
\* strings.Repeat
Repeat(str, count) == IF count <= 0 THEN "" ELSE str \o Repeat(str, count - 1)

\* relative left, date right, at least one space between them
combinedCell_OneSpace(rel, width) ==
    IF rel.relative = "" /\ rel.date = "" THEN ""
    ELSE IF rel.date = "" THEN rel.relative
    ELSE rel.relative \o " " \o rel.date

combinedCell(rel, width) ==
    IF rel.relative = "" /\ rel.date = "" THEN ""
    ELSE IF rel.date = "" THEN rel.relative
    ELSE rel.relative
             \o Repeat(" ", Max(1, width - Len(rel.relative) - Len(rel.date)))
             \o rel.date

MaxOf(S) == CHOOSE m \in S : \A n \in S : n <= m

releasedWidth(rows) ==
    MaxOf({0} \cup {Len(rows[k].ReleasedRel) + 1 + Len(rows[k].ReleasedRaw) :
                        k \in 1..Len(rows)})

\* the width a SUPPORT or EOL cell asks for
displayWidth_PlusOne(rel, raw) ==
    IF rel # "" /\ raw # "" /\ raw # "true" /\ raw # "false"
    THEN Len(rel) + 1 + Len(raw)
    ELSE Len(rel) + 1

displayWidth(rel, raw) ==
    IF rel # "" /\ raw # "" /\ raw # "true" /\ raw # "false"
    THEN Len(rel) + 1 + Len(raw)
    ELSE Len(rel)

supportWidth(rows) ==
    MaxOf({0} \cup {displayWidth(rows[k].SupportRel, rows[k].SupportRaw) :
                        k \in 1..Len(rows)})

eolWidth(rows) ==
    MaxOf({0} \cup {displayWidth(rows[k].EOLRel, rows[k].EOLRaw) :
                        k \in 1..Len(rows)})

\* "if supportDate == "true" || supportDate == "false" { supportDate = "" }"
dateOnly(raw) == IF raw = "true" \/ raw = "false" THEN "" ELSE raw

tableRow(r, rows) ==
    <<r.Cycle, r.Latest,
      combinedCell(relativeDate(r.ReleasedRel, r.ReleasedRaw),
                   releasedWidth(rows)),
      combinedCell(relativeDate(r.SupportRel, dateOnly(r.SupportRaw)),
                   supportWidth(rows)),
      combinedCell(relativeDate(r.EOLRel, dateOnly(r.EOLRaw)),
                   eolWidth(rows)),
      IF r.LTS THEN CheckMark ELSE "">>

\* formatAsTable up to the blank line after the table
formatAsTable(product, rows) ==
    <<Line(""), Line("Release cycles for " \o product), Line(""),
      <<"CYCLE", "LATEST", "RELEASED", "SUPPORT", "EOL", "LTS">> >>
        \o [k \in 1..Len(rows) |-> tableRow(rows[k], rows)]
        \o <<Line("")>>

\* the summary line under the table
summary(activeCount, eolCount, showAll) ==
    ToString(activeCount) \o " active"
        \o (IF eolCount > 0 /\ ~showAll
            THEN ", " \o ToString(eolCount) \o " EOL (use --all to show)"
            ELSE IF eolCount > 0 THEN ", " \o ToString(eolCount) \o " EOL"
            ELSE "")

\* DisplayCycles' switch on the format
renderer_FoldCase(format) ==
    CASE format \in {"markdown", "Markdown"} -> "markdown"
      [] format \in {"csv", "CSV"} -> "csv"
      [] format \in {"html", "HTML"} -> "html"
      [] OTHER -> "table"

renderer(format) ==
    CASE format = "markdown" -> "markdown"
      [] format = "csv" -> "csv"
      [] format = "html" -> "html"
      [] OTHER -> "table"

\* what DisplayCycles prints when no row is left
noRows_AlwaysHint(product, showAll) ==
    <<Line((IF showAll THEN "No release cycles found for "
                       ELSE "No active release cycles found for ") \o product),
      Line("Use --all to show end-of-life versions")>>

noRows(product, showAll) ==
    IF showAll
    THEN <<Line("No release cycles found for " \o product)>>
    ELSE <<Line("No active release cycles found for " \o product),
           Line("Use --all to show end-of-life versions")>>

(***************************************************************************)
(* SpecDisplay: one call DisplayCycles(product, cycles, showAll, format).  *)
(* IsEOL, formatRelease, formatSupport and formatEOL each call time.Now(), *)
(* so the call is a sequence of steps, one for each reading of the clock,  *)
(* and the clock may advance between two of them:                          *)
(*   pc = "prepare"   the loop of prepareDisplayRows, at cycle i and at    *)
(*                    the stage filter, release, support, eol or append;   *)
(*   pc = "summary"   the counting loop of formatAsTable, at cycle i;      *)
(*   pc = "done"      DisplayCycles has returned.                          *)
(* display.filterAt records the clock reading of the filter of each cycle, *)
(* display.widths the column widths formatAsTable computed.                *)
(***************************************************************************)
decodeCycle(name, latest, releaseWire, eolWire, supportWire, ltsWire) ==
    [Cycle |-> name,
     Latest |-> latest,
     ReleaseDate |-> Date_UnmarshalJSON(ZeroTime, releaseWire).v,
     EOL |-> EOLValue_UnmarshalJSON(ZeroValue, eolWire).v,
     Support |-> EOLValue_UnmarshalJSON(ZeroValue, supportWire).v,
     LTS |-> LTSValue_UnmarshalJSON(ZeroValue, ltsWire).v]

\* 3.13 reaches its end of life one hour after NowBase
SampleCycles ==
    {decodeCycle("3.14", "3.14.0", WString(S_2024_02_29),
                 WString(S_2027_12_31), WString(S_2025_10_31), WBool(FALSE)),
     decodeCycle("3.13", "3.13.9", WNull,
                 WString(S_2025_10_31), WBool(FALSE), WBool(TRUE)),
     decodeCycle("2.7", "2.7.18", WString(S_2024_02_29),
                 WBool(TRUE), WBool(TRUE), WString(S_2024_02_29)),
     decodeCycle("3.9", "3.9.24", WString(S_2024_02_29),
                 WString(S_2024_02_29), WNumber, WString(S_2027_12_31))}

CycleLists == UNION {[1..n -> SampleCycles] : n \in 0..MaxCycles}

Formats == {"table", "markdown", "csv", "html", "", "CSV"}

InitDisplay ==
    /\ now = NowBase
    /\ release = ZeroTime
    /\ eol = ZeroValue
    /\ support = ZeroValue
    /\ lts = ZeroValue
    /\ InitResults
    /\ \E cycles \in CycleLists, showAll \in BOOLEAN, format \in Formats :
          display = [NoDisplay EXCEPT !.product = "python",
                                      !.cycles = cycles,
                                      !.showAll = showAll,
                                      !.format = format,
                                      !.pc = "prepare",
                                      !.i = 1,
                                      !.stage = "filter"]
    /\ cell = NoCell
    /\ run = NoRun
    /\ search = NoSearch

displayFrame ==
    <<now, cycleVars, decodeVars, resultVars, op, ticks, cell, run, search>>

InLoop(stage) ==
    /\ display.pc = "prepare"
    /\ display.i <= Len(display.cycles)
    /\ display.stage = stage

LoopOver == display.pc = "prepare" /\ display.i > Len(display.cycles)

\* "if !showAll && c.EOL.IsEOL() { continue }"
PrepareFilter ==
    /\ InLoop("filter")
    /\ display' =
          IF skipCycle(display.cycles[display.i], display.showAll, now)
          THEN [display EXCEPT !.i = @ + 1, !.filterAt = Append(@, now)]
          ELSE [display EXCEPT !.stage = "release",
                               !.filterAt = Append(@, now)]
    /\ UNCHANGED displayFrame

\* "release := formatRelease(c.ReleaseDate.Time)"
PrepareRelease ==
    /\ InLoop("release")
    /\ display' =
          [display EXCEPT
              !.part.release =
                  formatRelease(display.cycles[display.i].ReleaseDate, now),
              !.stage = "support"]
    /\ UNCHANGED displayFrame

\* "support := formatSupport(c.Support)"
PrepareSupport ==
    /\ InLoop("support")
    /\ display' =
          [display EXCEPT
              !.part.support =
                  formatSupport(display.cycles[display.i].Support, now),
              !.stage = "eol"]
    /\ UNCHANGED displayFrame

\* "eol := formatEOL(c.EOL)"
PrepareEOL ==
    /\ InLoop("eol")
    /\ display' =
          [display EXCEPT
              !.part.eol = formatEOL(display.cycles[display.i].EOL, now),
              !.stage = "append"]
    /\ UNCHANGED displayFrame

\* the row literal, with its own c.EOL.IsEOL(), and the append
PrepareAppend ==
    /\ InLoop("append")
    /\ display' =
          [display EXCEPT
              !.rows = appendRow(@, displayRow(display.cycles[display.i],
                                               display.part.release,
                                               display.part.support,
                                               display.part.eol, now)),
              !.part = NoPart,
              !.i = @ + 1,
              !.stage = "filter"]
    /\ UNCHANGED displayFrame

\* "if len(rows) == 0 { ...; return }"
NoRows ==
    /\ LoopOver
    /\ Len(display.rows) = 0
    /\ display' =
          [display EXCEPT !.out = noRows(display.product, display.showAll),
                          !.pc = "done"]
    /\ UNCHANGED displayFrame

\* case "markdown"
RenderMarkdown ==
    /\ LoopOver
    /\ Len(display.rows) # 0
    /\ renderer(display.format) = "markdown"
    /\ display' =
          [display EXCEPT
              !.out = formatAsMarkdown(display.product, display.rows),
              !.invoked = Append(@, "markdown"),
              !.pc = "done"]
    /\ UNCHANGED displayFrame

\* case "csv"
RenderCSV ==
    /\ LoopOver
    /\ Len(display.rows) # 0
    /\ renderer(display.format) = "csv"
    /\ display' =
          [display EXCEPT !.out = formatAsCSV(display.rows),
                          !.invoked = Append(@, "csv"),
                          !.pc = "done"]
    /\ UNCHANGED displayFrame

\* case "html"
RenderHTML ==
    /\ LoopOver
    /\ Len(display.rows) # 0
    /\ renderer(display.format) = "html"
    /\ display' =
          [display EXCEPT
              !.out = formatAsHTML(display.product, display.rows),
              !.invoked = Append(@, "html"),
              !.pc = "done"]
    /\ UNCHANGED displayFrame

\* default: formatAsTable prints the title and the table, then counts
RenderTable ==
    /\ LoopOver
    /\ Len(display.rows) # 0
    /\ renderer(display.format) = "table"
    /\ display' =
          [display EXCEPT
              !.out = formatAsTable(display.product, display.rows),
              !.widths = [released |-> releasedWidth(display.rows),
                          support |-> supportWidth(display.rows),
                          eol |-> eolWidth(display.rows)],
              !.invoked = Append(@, "table"),
              !.pc = "summary",
              !.i = 1]
    /\ UNCHANGED displayFrame

\* "for _, c := range cycles { if c.EOL.IsEOL() { eolCount++ } else { activeCount++ } }"
CountCycle ==
    /\ display.pc = "summary"
    /\ display.i <= Len(display.cycles)
    /\ display' =
          IF EOLValue_IsEOL(display.cycles[display.i].EOL, now)
          THEN [display EXCEPT !.eolCount = @ + 1, !.i = @ + 1]
          ELSE [display EXCEPT !.activeCount = @ + 1, !.i = @ + 1]
    /\ UNCHANGED displayFrame

\* the summary line; formatAsTable and DisplayCycles return
Summary ==
    /\ display.pc = "summary"
    /\ display.i > Len(display.cycles)
    /\ display' =
          [display EXCEPT
              !.out = Append(@, Line(summary(display.activeCount,
                                             display.eolCount,
                                             display.showAll))),
              !.pc = "done"]
    /\ UNCHANGED displayFrame

NextDisplay ==
    \/ Tick
    \/ PrepareFilter
    \/ PrepareRelease
    \/ PrepareSupport
    \/ PrepareEOL
    \/ PrepareAppend
    \/ NoRows
    \/ RenderMarkdown
    \/ RenderCSV
    \/ RenderHTML
    \/ RenderTable
    \/ CountCycle
    \/ Summary

SpecDisplay == InitDisplay /\ [][NextDisplay]_vars

(***************************************************************************)
(* Properties of prepareDisplayRows and formatRawValue (SpecDisplay).      *)
(***************************************************************************)
\* prepareDisplayRows has returned
Prepared == display.pc \in {"summary", "done"} \/ LoopOver

\* the cycles the filter lets through, by the clock reading of each filter
Retained ==
    SelectSeq([k \in 1..Len(display.cycles) |-> k],
              LAMBDA k : \/ display.showAll
                         \/ ~EOLValue_IsEOL(display.cycles[k].EOL,
                                            display.filterAt[k]))

\* C12: prepareDisplayRows returns one row for each input cycle that passes
\* the filter, in input order: every cycle when showAll is true, and exactly
\* the cycles whose EOL.IsEOL() is false when showAll is false.
C12_RowsAreFilteredCycles ==
    Prepared =>
        /\ Len(display.filterAt) = Len(display.cycles)
        /\ Len(display.rows) = Len(Retained)
        /\ \A k \in 1..Len(display.rows) :
              /\ display.rows[k].Cycle = display.cycles[Retained[k]].Cycle
              /\ display.rows[k].Latest = display.cycles[Retained[k]].Latest
        /\ display.showAll => Len(display.rows) = Len(display.cycles)

\* of two cycles the first was filtered out and the second kept
C12_Witness ==
    /\ Prepared
    /\ ~display.showAll
    /\ Len(display.cycles) = 2
    /\ Len(display.rows) = 1
    /\ display.rows[1].Cycle = display.cycles[2].Cycle
    /\ display.cycles[1].Cycle # display.cycles[2].Cycle

\* the cycle a row was made from (the sample cycles have distinct names)
CycleOf(row) == CHOOSE c \in SampleCycles : c.Cycle = row.Cycle

\* C13: the raw text of a row's support and EOL value is exactly "true" or
\* "false" for a flag variant, and for a date variant the date as YYYY-MM-DD
\* or "" when the date is zero; the two shapes never mix.
C13_RawValues ==
    \A k \in 1..Len(display.rows) :
        \A pair \in {<<CycleOf(display.rows[k]).Support,
                       display.rows[k].SupportRaw>>,
                     <<CycleOf(display.rows[k]).EOL,
                       display.rows[k].EOLRaw>>} :
            LET v == pair[1]
                raw == pair[2]
            IN  /\ (v.IsBoolean /\ v.BoolValue) => raw = "true"
                /\ (v.IsBoolean /\ ~v.BoolValue) => raw = "false"
                /\ (~v.IsBoolean /\ v.DateValue = ZeroTime) => raw = ""
                /\ (~v.IsBoolean /\ v.DateValue # ZeroTime) =>
                      /\ raw = Format(v.DateValue)
                      /\ Len(raw) = 10
                      /\ raw \notin {"true", "false"}

\* rows with a false flag, two dates and an unknown value
C13_Witness ==
    /\ \E k \in 1..Len(display.rows) :
          display.rows[k].SupportRaw = "false"
              /\ display.rows[k].EOLRaw = "2025-10-31"
    /\ \E k \in 1..Len(display.rows) :
          display.rows[k].SupportRaw = "" /\ display.rows[k].EOLRaw = "2024-02-29"

(***************************************************************************)
(* SpecCell: formatMarkdownDate and formatHTMLDate applied to one pair of  *)
(* a relative label and a raw value.                                       *)
(***************************************************************************)
RelSamples == {"", "3m ago", "in 2y 1m", "<1d ago", "Yes", "No", "Ended"}

RawSamples == {"", "true", "false", "True", "2025-10-07", "2027-12-31"}

InitCell ==
    /\ now = NowBase
    /\ release = ZeroTime
    /\ eol = ZeroValue
    /\ support = ZeroValue
    /\ lts = ZeroValue
    /\ InitResults
    /\ display = NoDisplay
    /\ \E rel \in RelSamples, raw \in RawSamples :
          cell = [NoCell EXCEPT !.rel = rel, !.raw = raw]
    /\ run = NoRun
    /\ search = NoSearch

cellFrame ==
    <<now, cycleVars, decodeVars, resultVars, op, ticks, display, run, search>>

FormatMarkdownDate ==
    /\ "markdown" \notin cell.ran
    /\ cell' = [cell EXCEPT !.markdown = formatMarkdownDate(cell.rel, cell.raw),
                            !.ran = @ \cup {"markdown"}]
    /\ UNCHANGED cellFrame

FormatHTMLDate ==
    /\ "html" \notin cell.ran
    /\ cell' = [cell EXCEPT !.html = formatHTMLDate(cell.rel, cell.raw),
                            !.ran = @ \cup {"html"}]
    /\ UNCHANGED cellFrame

NextCell == FormatMarkdownDate \/ FormatHTMLDate

SpecCell == InitCell /\ [][NextCell]_vars

\* C14: formatMarkdownDate and formatHTMLDate return the same string for
\* every (rel, raw): "" when both are empty; rel alone when raw is "", "true"
\* or "false"; raw alone when rel is empty; otherwise "rel (raw)".
C14_SameCombination ==
    LET expected ==
            CASE cell.rel = "" /\ cell.raw = "" -> ""
              [] cell.rel # "" /\ cell.raw \in {"", "true", "false"} -> cell.rel
              [] cell.rel = "" /\ cell.raw \in {"true", "false"} -> cell.rel
              [] cell.rel = "" /\ cell.raw \notin {"", "true", "false"} -> cell.raw
              [] OTHER -> cell.rel \o " (" \o cell.raw \o ")"
    IN  /\ "markdown" \in cell.ran => cell.markdown = expected
        /\ "html" \in cell.ran => cell.html = expected
        /\ cell.ran = {"markdown", "html"} => cell.markdown = cell.html

\* both combiners ran on a label with a date
C14_Witness ==
    /\ cell.ran = {"markdown", "html"}
    /\ cell.rel = "3m ago"
    /\ cell.raw = "2025-10-07"
    /\ cell.html = "3m ago (2025-10-07)"

(***************************************************************************)
(* Properties of DisplayCycles and its renderers (SpecDisplay).            *)
(***************************************************************************)
Returned == display.pc = "done"

\* C15: formatAsCSV writes the header CYCLE,LATEST,RELEASED,SUPPORT,EOL,LTS
\* first and then one record per row, in row order, with the fields Cycle,
\* Latest, ReleasedRaw, SupportRaw, EOLRaw and LTS as "true" or "false"; no
\* relative label is written.
C15_CSVRecords ==
    (Returned /\ display.invoked = <<"csv">>) =>
        /\ Len(display.out) = Len(display.rows) + 1
        /\ display.out[1] =
              <<"CYCLE", "LATEST", "RELEASED", "SUPPORT", "EOL", "LTS">>
        /\ \A k \in 1..Len(display.rows) :
              LET r == display.rows[k]
                  rec == display.out[k + 1]
              IN  /\ Len(rec) = 6
                  /\ rec[1] = r.Cycle
                  /\ rec[2] = r.Latest
                  /\ rec[3] = r.ReleasedRaw
                  /\ rec[4] = r.SupportRaw
                  /\ rec[5] = r.EOLRaw
                  /\ rec[6] \in {"true", "false"}
                  /\ rec[6] = "true" <=> r.LTS
                  /\ \A f \in 1..6 :
                        rec[f] \notin
                            {r.ReleasedRel, r.SupportRel, r.EOLRel} \ {""}

\* two records were written, one of an LTS cycle and one of a cycle with labels
C15_Witness ==
    /\ Returned
    /\ display.invoked = <<"csv">>
    /\ Len(display.out) = 3
    /\ display.out[2] = <<"3.13", "3.13.9", "", "false", "2025-10-31", "true">>
    /\ display.rows[2].ReleasedRel # ""
    /\ display.rows[2].EOLRel # ""

\* C16: with at least one row retained DisplayCycles invokes exactly one
\* renderer: Markdown for "markdown", CSV for "csv", HTML for "html" and the
\* table renderer for every other format string.
C16_OneRenderer ==
    LET chosen ==
            IF display.format = "markdown" THEN "markdown"
            ELSE IF display.format = "csv" THEN "csv"
            ELSE IF display.format = "html" THEN "html"
            ELSE "table"
    IN  /\ (display.pc \in {"summary", "done"} /\ Len(display.rows) > 0) =>
              display.invoked = <<chosen>>
        /\ display.pc = "prepare" => display.invoked = <<>>

\* a differently-cased format went to the table renderer
C16_Witness ==
    /\ Returned
    /\ Len(display.rows) > 0
    /\ display.format = "CSV"
    /\ display.invoked = <<"table">>

\* C17: when no row is left DisplayCycles prints, for every format, only a
\* "no cycles found" message, and the hint to use the show-all flag exactly
\* when showAll is false; it invokes no renderer.
C17_NoRows ==
    (Returned /\ Len(display.rows) = 0) =>
        /\ display.invoked = <<>>
        /\ display.out[1] \in
              {Line("No release cycles found for " \o display.product),
               Line("No active release cycles found for " \o display.product)}
        /\ display.showAll => Len(display.out) = 1
        /\ ~display.showAll =>
              /\ Len(display.out) = 2
              /\ display.out[2] = Line("Use --all to show end-of-life versions")

\* every cycle of a CSV request was filtered out
C17_Witness ==
    /\ Returned
    /\ Len(display.rows) = 0
    /\ Len(display.cycles) = 2
    /\ ~display.showAll
    /\ display.format = "csv"
    /\ Len(display.out) = 2

\* C18: the table summary counts the unfiltered cycle list: activeCount +
\* eolCount is the number of input cycles for both showAll values, and with
\* showAll false eolCount is the number of cycles that were filtered out.
C18_SummaryCounts ==
    (Returned /\ display.invoked = <<"table">>) =>
        /\ display.activeCount + display.eolCount = Len(display.cycles)
        /\ ~display.showAll =>
              display.eolCount = Len(display.cycles) - Len(display.rows)

(***************************************************************************)
(* Product search (package search: FindExact, FindSimilar).  A product     *)
(* name and a query are sequences of one-character ASCII strings (the      *)
(* samples are written over Letters); byte gives the byte of a character,  *)
(* so that sort.Strings orders the upper-case letters before the           *)
(* lower-case ones.                                                        *)
(***************************************************************************)
Letters == {"-", "A", "B", "G", "O", "a", "b", "c", "g", "o"}

\* the printable ASCII characters in byte order, from the space (byte 32) to
\* the tilde (byte 126); the grave accent (byte 96), which a string of this
\* module cannot hold, is written "U+0060"; characters beyond ASCII are not
\* modelled
Ascii ==
    <<" ", "!", "\"", "#", "$", "%", "&", "'", "(", ")", "*", "+", ",",
      "-", ".", "/", "0", "1", "2", "3", "4", "5", "6", "7", "8", "9", ":",
      ";", "<", "=", ">", "?", "@", "A", "B", "C", "D", "E", "F", "G", "H",
      "I", "J", "K", "L", "M", "N", "O", "P", "Q", "R", "S", "T", "U", "V",
      "W", "X", "Y", "Z", "[", "\\", "]", "^", "_", "U+0060", "a", "b", "c",
      "d", "e", "f", "g", "h", "i", "j", "k", "l", "m", "n", "o", "p", "q",
      "r", "s", "t", "u", "v", "w", "x", "y", "z", "{", "|", "}", "~">>

\* the byte of a character
byte(ch) == 31 + (CHOOSE k \in 1..Len(Ascii) : Ascii[k] = ch)

\* unicode.ToLower of one character: "A".."Z" (bytes 65..90) become
\* "a".."z" (bytes 97..122), every other ASCII character is kept
lower(ch) ==
    IF \E k \in (65 - 31)..(90 - 31) : Ascii[k] = ch
    THEN Ascii[byte(ch) + 32 - 31]
    ELSE ch

\* strings.ToLower
ToLower(str) == [k \in 1..Len(str) |-> lower(str[k])]

\* strings.Contains
Contains(str, substr) ==
    \E k \in 0..(Len(str) - Len(substr)) :
        SubSeq(str, k + 1, k + Len(substr)) = substr

RECURSIVE Less(_, _)
\* the order of Go strings (a < b): byte by byte, a proper prefix first
Less(a, b) ==
    IF Len(b) = 0 THEN FALSE
    ELSE IF Len(a) = 0 THEN TRUE
    ELSE IF byte(Head(a)) # byte(Head(b)) THEN byte(Head(a)) < byte(Head(b))
    ELSE Less(Tail(a), Tail(b))

RECURSIVE insertSorted(_, _)
insertSorted(sorted, str) ==
    IF Len(sorted) = 0 THEN <<str>>
    ELSE IF Less(str, Head(sorted)) THEN <<str>> \o sorted
    ELSE <<Head(sorted)>> \o insertSorted(Tail(sorted), str)

RECURSIVE sortStrings(_)
\* sort.Strings
sortStrings(strs) ==
    IF Len(strs) = 0 THEN <<>>
    ELSE insertSorted(sortStrings(Tail(strs)), Head(strs))

\* the loop of FindSimilar: the products that contain the query
similar(products, query) ==
    SelectSeq(products, LAMBDA p : Contains(ToLower(p), ToLower(query)))

\* "if len(results) > limit { results = results[:limit] }"; the slice
\* expression panics for a negative limit
truncate(results, limit) ==
    IF Len(results) > limit
    THEN IF limit < 0 THEN [panic |-> TRUE, items |-> <<>>, isNil |-> TRUE]
         ELSE [panic |-> FALSE, items |-> SubSeq(results, 1, limit),
               isNil |-> FALSE]
    ELSE [panic |-> FALSE, items |-> results, isNil |-> Len(results) = 0]

\* the result is [panic, items, isNil]; isNil is TRUE for the nil slice
FindSimilar_TruncateFirst(products, query, limit) ==
    LET cut == truncate(similar(products, query), limit)
    IN  [cut EXCEPT !.items = sortStrings(@)]

FindSimilar(products, query, limit) ==
    truncate(sortStrings(similar(products, query)), limit)

\* the result is [match, found]
FindExact_Contains(products, query) ==
    LET hits == SelectSeq(products,
                          LAMBDA p : Contains(ToLower(p), ToLower(query)))
    IN  IF Len(hits) > 0 THEN [match |-> Head(hits), found |-> TRUE]
        ELSE [match |-> <<>>, found |-> FALSE]

FindExact(products, query) ==
    LET hits == SelectSeq(products, LAMBDA p : ToLower(p) = ToLower(query))
    IN  IF Len(hits) > 0 THEN [match |-> Head(hits), found |-> TRUE]
        ELSE [match |-> <<>>, found |-> FALSE]

(***************************************************************************)
(* SpecSearch: one call FindSimilar(products, query, limit).               *)
(***************************************************************************)
\* "go" and the query "GO" are those of TestFindSimilar
ProductNames ==
    {<<"a">>, <<"B">>, <<"a", "b">>, <<"A", "b">>, <<"b", "a">>, <<"g", "o">>}

ProductLists == UNION {[1..n -> ProductNames] : n \in 0..MaxProducts}

Queries ==
    {<<>>, <<"a">>, <<"A">>, <<"b">>, <<"a", "b">>, <<"A", "B">>, <<"c">>,
     <<"-">>, <<"G", "O">>}

Limits == (-1)..MaxLimit

InitSearch ==
    /\ now = NowBase
    /\ release = ZeroTime
    /\ eol = ZeroValue
    /\ support = ZeroValue
    /\ lts = ZeroValue
    /\ InitResults
    /\ display = NoDisplay
    /\ cell = NoCell
    /\ run = NoRun
    /\ \E products \in ProductLists, query \in Queries, limit \in Limits :
          search = [NoSearch EXCEPT !.pc = "call",
                                    !.products = products,
                                    !.query = query,
                                    !.limit = limit]

searchFrame ==
    <<now, cycleVars, decodeVars, resultVars, op, ticks, display, cell, run>>

FindSimilarCall ==
    /\ search.pc = "call"
    /\ search' =
          [search EXCEPT
              !.result = FindSimilar(search.products, search.query,
                                     search.limit),
              !.pc = "returned"]
    /\ UNCHANGED searchFrame

\* one call FindExact(products, query) with the same arguments
FindExactCall ==
    /\ search.pc = "call"
    /\ search' =
          [search EXCEPT !.exact = FindExact(search.products, search.query),
                         !.pc = "returned exact"]
    /\ UNCHANGED searchFrame

NextSearch == FindSimilarCall \/ FindExactCall

SpecSearch == InitSearch /\ [][NextSearch]_vars

\* how many times a string occurs in a sequence of strings
Occurrences(strs, str) == Cardinality({k \in 1..Len(strs) : strs[k] = str})

\* C20: for a limit >= 0 FindSimilar returns exactly the products that
\* contain the query as a case-insensitive substring, sorted in ascending
\* string order and cut to the first limit entries; the empty query matches
\* every product, and a query without a match gives the empty (nil) result.
C20_FindSimilar ==
    LET products == search.products
        query == search.query
        items == search.result.items
        Holds(p) ==
            \E k \in 1..(Len(p) + 1) :
                \A j \in 1..Len(query) :
                    /\ k + j - 1 <= Len(p)
                    /\ lower(p[k + j - 1]) = lower(query[j])
        matching == {k \in 1..Len(products) : Holds(products[k])}
        Matched(str) ==
            Cardinality({k \in matching : products[k] = str})
    IN  (search.pc = "returned" /\ search.limit >= 0) =>
            /\ ~search.result.panic
            /\ Len(items) = Min(search.limit, Cardinality(matching))
            /\ \A k \in 1..Len(items) : Occurrences(items, items[k]) <= Matched(items[k])
            /\ \A k \in 1..(Len(items) - 1) : ~Less(items[k + 1], items[k])
            /\ \A k \in matching :
                  Occurrences(items, products[k]) < Matched(products[k]) =>
                      \A j \in 1..Len(items) : ~Less(products[k], items[j])
            /\ Len(query) = 0 => Cardinality(matching) = Len(products)
            /\ Cardinality(matching) = 0 =>
                  items = <<>> /\ search.result.isNil

\* three products matched "a" whatever the case, the result was cut to the
\* two smallest, and the upper-case name came first
C20_Witness ==
    /\ search.pc = "returned"
    /\ search.products = <<<<"b", "a">>, <<"a", "b">>, <<"A", "b">>>>
    /\ search.query = <<"A">>
    /\ search.limit = 2
    /\ search.result.items = <<<<"A", "b">>, <<"a", "b">>>>

(***************************************************************************)
(* SpecRun: one run of the command, main calling run.  FetchProducts,      *)
(* ui.SelectProduct and FetchProduct are calls out of the program (HTTP,   *)
(* the terminal); each is a step that fails or succeeds, and run.calls     *)
(* records how each of them ended.  run.displayed lists the calls of       *)
(* ui.DisplayCycles, run.stderr the lines main wrote to standard error,    *)
(* run.exit the exit status (-1 while the process runs).                   *)
(*                                                                         *)
(* The call ui.DisplayCycles(product, cycles, showAll, format) runs inside *)
(* run: RunDisplayCycles enters it with run's arguments, the steps of      *)
(* DisplayCycles (PrepareFilter .. Summary, one for each reading of the    *)
(* clock) prepare the rows and write the output to display.out, and        *)
(* RunReturn is run's "return nil" once DisplayCycles has returned.  The   *)
(* clock advances at any time.                                             *)
(***************************************************************************)
Catalogs == {l \in ProductLists : Len(l) <= MaxCatalog}

FetchedCycles == {l \in CycleLists : Len(l) <= 1}

\* the product name on the command line
RunQueries == {<<"a">>, <<"A", "B">>, <<"c">>, <<"G", "O">>}

\* values of the --format flag; "table" is its default
RunFormats == {"table", "markdown", "csv", "html"}

InitRun ==
    /\ now = NowBase
    /\ release = ZeroTime
    /\ eol = ZeroValue
    /\ support = ZeroValue
    /\ lts = ZeroValue
    /\ InitResults
    /\ display = NoDisplay
    /\ cell = NoCell
    /\ search = NoSearch
    /\ \E nargs \in {0, 1}, query \in RunQueries,
          showAll \in BOOLEAN, format \in RunFormats :
          run = [NoRun EXCEPT !.pc = "run",
                              !.nargs = nargs,
                              !.query = IF nargs = 0 THEN <<>> ELSE query,
                              !.showAll = showAll,
                              !.format = format]

runFrame ==
    <<now, cycleVars, decodeVars, resultVars, op, ticks, display, cell, search>>

\* "if cmd.NArg() < 1 { return fmt.Errorf(...) }"
RunArgs ==
    /\ run.pc = "run"
    /\ run' = IF run.nargs < 1
              THEN [run EXCEPT !.err = "product name required",
                               !.pc = "returned"]
              ELSE [run EXCEPT !.pc = "FetchProducts"]
    /\ UNCHANGED runFrame

\* "products, err := api.FetchProducts(ctx)"
RunFetchProducts ==
    /\ run.pc = "FetchProducts"
    /\ \/ run' = [run EXCEPT !.calls.FetchProducts = "error",
                             !.err = "failed to fetch product list",
                             !.pc = "returned"]
       \/ \E products \in Catalogs :
             run' = [run EXCEPT !.calls.FetchProducts = "ok",
                                !.products = products,
                                !.pc = "resolve"]
    /\ UNCHANGED runFrame

\* FindExact, and FindSimilar with limit 10 when there is no exact match
RunResolve ==
    /\ run.pc = "resolve"
    /\ LET exact == FindExact(run.products, run.query)
           matches == FindSimilar(run.products, run.query, 10).items
       IN  run' =
             IF exact.found
             THEN [run EXCEPT !.product = exact.match, !.pc = "FetchProduct"]
             ELSE IF Len(matches) = 0
             THEN [run EXCEPT !.err = "no products found matching",
                              !.pc = "returned"]
             ELSE [run EXCEPT !.matches = matches, !.pc = "SelectProduct"]
    /\ UNCHANGED runFrame

\* "selected, selectErr := ui.SelectProduct(matches)": the user picks one of
\* the matches or the selection fails
RunSelectProduct ==
    /\ run.pc = "SelectProduct"
    /\ \/ run' = [run EXCEPT !.calls.SelectProduct = "error",
                             !.err = "selectErr",
                             !.pc = "returned"]
       \/ \E k \in 1..Len(run.matches) :
             run' = [run EXCEPT !.calls.SelectProduct = "ok",
                                !.product = run.matches[k],
                                !.pc = "FetchProduct"]
    /\ UNCHANGED runFrame

RunFetchProduct_IgnoreError ==
    /\ run.pc = "FetchProduct"
    /\ \/ run' = [run EXCEPT !.calls.FetchProduct = "error",
                             !.pc = "DisplayCycles"]
       \/ \E cycles \in FetchedCycles :
             run' = [run EXCEPT !.calls.FetchProduct = "ok",
                                !.cycles = cycles,
                                !.pc = "DisplayCycles"]
    /\ UNCHANGED runFrame

\* "cycles, err := api.FetchProduct(ctx, product)"
RunFetchProduct ==
    /\ run.pc = "FetchProduct"
    /\ \/ run' = [run EXCEPT !.calls.FetchProduct = "error",
                             !.err = "failed to fetch product details",
                             !.pc = "returned"]
       \/ \E cycles \in FetchedCycles :
             run' = [run EXCEPT !.calls.FetchProduct = "ok",
                                !.cycles = cycles,
                                !.pc = "DisplayCycles"]
    /\ UNCHANGED runFrame

\* "ui.DisplayCycles(product, cycles, showAll, format)": the call enters
\* DisplayCycles with run's product, cycles, showAll and format
RunDisplayCycles ==
    /\ run.pc = "DisplayCycles"
    /\ run' = [run EXCEPT
                  !.displayed = Append(@, [product |-> run.product,
                                           cycles |-> run.cycles,
                                           showAll |-> run.showAll,
                                           format |-> run.format]),
                  !.pc = "displaying"]
    /\ display' = [NoDisplay EXCEPT !.product = Join(run.product),
                                    !.cycles = run.cycles,
                                    !.showAll = run.showAll,
                                    !.format = run.format,
                                    !.pc = "prepare",
                                    !.i = 1,
                                    !.stage = "filter"]
    /\ UNCHANGED <<now, cycleVars, decodeVars, resultVars, op, ticks, cell,
                   search>>

\* "return nil", after DisplayCycles has returned
RunReturn ==
    /\ run.pc = "displaying"
    /\ display.pc = "done"
    /\ run' = [run EXCEPT !.pc = "returned"]
    /\ UNCHANGED runFrame

\* main: "if err := cmd.Run(...); err != nil { Fprintf(os.Stderr, ...); os.Exit(1) }"
MainExit ==
    /\ run.pc = "returned"
    /\ run' = IF run.err # "nil"
              THEN [run EXCEPT !.stderr = Append(@, "error: " \o run.err),
                               !.exit = 1,
                               !.pc = "exited"]
              ELSE [run EXCEPT !.exit = 0, !.pc = "exited"]
    /\ UNCHANGED runFrame

NextRun ==
    \/ RunArgs
    \/ RunFetchProducts
    \/ RunResolve
    \/ RunSelectProduct
    \/ RunFetchProduct
    \/ RunDisplayCycles
    \/ Tick
    \/ PrepareFilter
    \/ PrepareRelease
    \/ PrepareSupport
    \/ PrepareEOL
    \/ PrepareAppend
    \/ NoRows
    \/ RenderMarkdown
    \/ RenderCSV
    \/ RenderHTML
    \/ RenderTable
    \/ CountCycle
    \/ Summary
    \/ RunReturn
    \/ MainExit

SpecRun == InitRun /\ [][NextRun]_vars

\* C19: run calls ui.DisplayCycles only after FetchProducts succeeded, a
\* product was resolved (exact match or selection) and FetchProduct
\* succeeded; when FetchProducts fails, when there is neither an exact nor a
\* similar match, when the selection fails or when FetchProduct fails, run
\* returns a non-nil error, which main reports once with exit status 1, and
\* DisplayCycles is never called: nothing is prepared and nothing is written
\* to standard output.  With a nil error DisplayCycles has run to its end on
\* the resolved product and the fetched cycles before main exits with
\* status 0.
C19_DisplayOnlyAfterSuccess ==
    LET exact ==
            \E k \in 1..Len(run.products) :
                ToLower(run.products[k]) = ToLower(run.query)
        alike ==
            \E k \in 1..Len(run.products) :
                Contains(ToLower(run.products[k]), ToLower(run.query))
        failed ==
            \/ run.calls.FetchProducts = "error"
            \/ /\ run.calls.FetchProducts = "ok"
               /\ run.pc # "resolve"
               /\ ~exact
               /\ ~alike
            \/ run.calls.SelectProduct = "error"
            \/ run.calls.FetchProduct = "error"
    IN  /\ Len(run.displayed) <= 1
        /\ Len(run.displayed) = 1 =>
              /\ run.calls.FetchProducts = "ok"
              /\ exact \/ run.calls.SelectProduct = "ok"
              /\ run.calls.FetchProduct = "ok"
              /\ run.displayed[1].product = run.product
              /\ \E k \in 1..Len(run.products) : run.products[k] = run.product
        /\ failed =>
              /\ run.pc \in {"returned", "exited"}
              /\ run.err # "nil"
              /\ run.displayed = <<>>
        /\ run.displayed = <<>> => display = NoDisplay
        /\ display.pc \in {"prepare", "summary"} => run.pc = "displaying"
        /\ run.pc # "exited" => run.stderr = <<>> /\ run.exit = -1
        /\ (run.pc = "exited" /\ run.err # "nil") =>
              /\ run.stderr = <<"error: " \o run.err>>
              /\ run.exit = 1
        /\ (run.pc = "exited" /\ run.err = "nil") =>
              /\ run.stderr = <<>>
              /\ run.exit = 0
              /\ Len(run.displayed) = 1
              /\ display.pc = "done"
              /\ display.product = Join(run.product)
              /\ display.cycles = run.cycles
              /\ display.showAll = run.showAll
              /\ display.format = run.format
              /\ display.out # <<>>

\* the product was picked from similar matches, FetchProduct then failed and
\* the process exited with status 1 without a call of DisplayCycles
C19_Witness ==
    /\ run.pc = "exited"
    /\ run.calls.FetchProducts = "ok"
    /\ run.calls.SelectProduct = "ok"
    /\ run.calls.FetchProduct = "error"
    /\ run.exit = 1
    /\ run.stderr = <<"error: failed to fetch product details">>
    /\ run.displayed = <<>>
    /\ display = NoDisplay

\* C21: FindExact returns (p, true) for the first product in list order
\* that equals the query ignoring case, in the product's own casing, and
\* ("", false) when no product equals the query ignoring case; a product
\* that only contains the query is not a match.
C21_FindExact ==
    LET products == search.products
        query == search.query
        Equal(p) ==
            /\ Len(p) = Len(query)
            /\ \A j \in 1..Len(p) : lower(p[j]) = lower(query[j])
        equals == {k \in 1..Len(products) : Equal(products[k])}
    IN  search.pc = "returned exact" =>
            /\ search.exact.found <=> equals # {}
            /\ equals # {} =>
                  \E k \in equals :
                      /\ \A j \in equals : k <= j
                      /\ search.exact.match = products[k]
            /\ equals = {} => search.exact.match = <<>>

\* the query matched two products ignoring case; the first one was returned
\* as it is spelled in the list
C21_Witness ==
    /\ search.pc = "returned exact"
    /\ search.products = <<<<"a">>, <<"A", "b">>, <<"a", "b">>>>
    /\ search.query = <<"a", "b">>
    /\ search.exact = [match |-> <<"A", "b">>, found |-> TRUE]

(***************************************************************************)
(* Properties of repeated decoding (SpecDecode).                           *)
(***************************************************************************)
\* C22: every EOLValue and LTSValue reached from the zero value by any
\* number of UnmarshalJSON calls has exactly one variant populated:
\* IsBoolean = true implies a zero DateValue, and IsBoolean = false implies
\* BoolValue = false.
C22_OneVariant ==
    \A v \in {eol, support, lts} :
        /\ v.IsBoolean => v.DateValue = ZeroTime
        /\ ~v.IsBoolean => ~v.BoolValue

(***************************************************************************)
(* Properties of the clock readings of one DisplayCycles pass              *)
(* (SpecDisplay).                                                          *)
(***************************************************************************)
\* the rows prepareDisplayRows returns when every clock reading is t
RowsAt(t) ==
    LET kept ==
            SelectSeq([k \in 1..Len(display.cycles) |-> k],
                      LAMBDA k : \/ display.showAll
                                 \/ ~EOLValue_IsEOL(display.cycles[k].EOL, t))
    IN  [n \in 1..Len(kept) |->
            LET c == display.cycles[kept[n]]
            IN  displayRow(c, formatRelease(c.ReleaseDate, t),
                           formatSupport(c.Support, t), formatEOL(c.EOL, t), t)]

\* the number of input cycles that are past their end of life at t
EndedAt(t) ==
    Cardinality({k \in 1..Len(display.cycles) :
                    EOLValue_IsEOL(display.cycles[k].EOL, t)})

\* C23: within one DisplayCycles pass the time is sampled once: the filter
\* decisions, each row's IsEOL flag and relative labels and the summary
\* counts of the table are all derived from one instant of the pass, also
\* when the wall clock passes a cycle's EOL date during the pass.
C23_OneInstant ==
    Prepared =>
        \E t \in (now - ticks)..now :
            /\ display.rows = RowsAt(t)
            /\ (Returned /\ display.invoked = <<"table">>) =>
                  /\ display.eolCount = EndedAt(t)
                  /\ display.activeCount = Len(display.cycles) - EndedAt(t)

(***************************************************************************)
(* Properties of the table layout (SpecDisplay).                           *)
(***************************************************************************)
TableRendered ==
    display.pc \in {"summary", "done"} /\ display.invoked = <<"table">>

\* the largest of the numbers a column's rows ask for (0 without rows)
Widest(asked) == MaxOf({0} \cup {asked[k] : k \in 1..Len(asked)})

\* C24 as stated: the width computed for each of the RELEASED, SUPPORT and
\* EOL columns is the maximum over the displayed rows of len(relative) + 1 +
\* len(absolute), absolute being empty for a flag-only cell.
C24_ColumnWidths_Original ==
    TableRendered =>
        LET rows == display.rows
        IN  /\ display.widths.released =
                  Widest([k \in 1..Len(rows) |->
                      Len(rows[k].ReleasedRel) + 1 + Len(rows[k].ReleasedRaw)])
            /\ display.widths.support =
                  Widest([k \in 1..Len(rows) |->
                      Len(rows[k].SupportRel) + 1
                          + Len(dateOnly(rows[k].SupportRaw))])
            /\ display.widths.eol =
                  Widest([k \in 1..Len(rows) |->
                      Len(rows[k].EOLRel) + 1 + Len(dateOnly(rows[k].EOLRaw))])

\* C24 (amended): the RELEASED width is the maximum over the displayed rows
\* of len(relative) + 1 + len(absolute); the SUPPORT and EOL widths are the
\* maximum over the displayed rows of len(relative) + 1 + len(absolute) for a
\* cell with a relative label and a date, and of len(relative) alone for a
\* flag-only or empty cell.
C24_ColumnWidths ==
    TableRendered =>
        LET rows == display.rows
            Asked(rel, raw) ==
                IF rel = "" \/ raw \in {"", "true", "false"} THEN Len(rel)
                ELSE Len(rel) + 1 + Len(raw)
        IN  /\ display.widths.released =
                  Widest([k \in 1..Len(rows) |->
                      Len(rows[k].ReleasedRel) + 1 + Len(rows[k].ReleasedRaw)])
            /\ display.widths.support =
                  Widest([k \in 1..Len(rows) |->
                      Asked(rows[k].SupportRel, rows[k].SupportRaw)])
            /\ display.widths.eol =
                  Widest([k \in 1..Len(rows) |->
                      Asked(rows[k].EOLRel, rows[k].EOLRaw)])

\* a table whose SUPPORT column holds only the flag label "Active" (width 6)
\* and whose EOL column holds only the flag label "Ended" (width 5)
C24_Witness ==
    /\ TableRendered
    /\ Len(display.rows) = 1
    /\ display.rows[1].SupportRel = "Active"
    /\ display.rows[1].EOLRel = "Ended"
    /\ display.widths.support = 6
    /\ display.widths.eol = 5

(***************************************************************************)
(* Properties of the labels (SpecProject).                                 *)
(***************************************************************************)
\* C25: every label formatRelease, formatSupport and formatEOL produce has
\* both parts empty, or both parts non-empty, or an empty absolute part with
\* one of the flag labels "Active", "Ended", "-" as relative part; a date
\* never comes with an empty relative label.
C25_LabelShape ==
    op \in {"formatRelease", "formatSupport", "formatEOL"} =>
        /\ \/ label.relative = "" /\ label.date = ""
           \/ label.relative # "" /\ label.date # ""
           \/ label.date = "" /\ label.relative \in {"Active", "Ended", "-"}
        /\ label.date # "" => label.relative # ""
        /\ op = "formatRelease" => label.relative \notin {"Active", "Ended", "-"}

\* formatSupport of the flag false gave the label "-" without a date
C25_Witness ==
    /\ op = "formatSupport"
    /\ support.IsBoolean
    /\ ~support.BoolValue
    /\ label = relativeDate("-", "")

\* the cells of the RELEASED, SUPPORT and EOL columns of the table row of
\* display.rows[k]: the two parts given to combinedCell, the column width
\* and the cell that was printed (the table rows follow three lines and the
\* header)
TableCells(k) ==
    LET r == display.rows[k]
        printed == display.out[4 + k]
    IN  {[relative |-> r.ReleasedRel, date |-> r.ReleasedRaw,
          width |-> display.widths.released, cell |-> printed[3]],
         [relative |-> r.SupportRel, date |-> dateOnly(r.SupportRaw),
          width |-> display.widths.support, cell |-> printed[4]],
         [relative |-> r.EOLRel, date |-> dateOnly(r.EOLRaw),
          width |-> display.widths.eol, cell |-> printed[5]]}

\* C26: every table cell with a relative label and a date is the relative
\* label, then columnWidth - len(relative) - len(date) spaces, then the
\* date, with a gap of at least 1, so that the cell is as long as the column
\* is wide; the cell is "" exactly when both parts are empty.
C26_CellLayout ==
    TableRendered =>
        \A k \in 1..Len(display.rows) :
            \A c \in TableCells(k) :
                LET gap == c.width - Len(c.relative) - Len(c.date)
                IN  /\ (c.relative # "" /\ c.date # "") =>
                          /\ gap >= 1
                          /\ c.cell = c.relative \o Repeat(" ", gap) \o c.date
                          /\ Len(c.cell) = c.width
                    /\ c.cell = "" <=> (c.relative = "" /\ c.date = "")

\* a column with two dated cells of different lengths: the shorter one got a
\* gap of two spaces or more
C26_Witness ==
    /\ TableRendered
    /\ Len(display.rows) = 2
    /\ \E k \in 1..2 :
          /\ display.rows[k].EOLRel # ""
          /\ dateOnly(display.rows[k].EOLRaw) # ""
          /\ display.widths.eol - Len(display.rows[k].EOLRel)
                 - Len(display.rows[k].EOLRaw) >= 2
          /\ Len(display.out[4 + k][5]) = display.widths.eol

(***************************************************************************)
(* Agreement of IsEOL and the EOL label (SpecProject).                     *)
(***************************************************************************)
\* every text formatDuration produces for a span within the Duration range
DurationTexts ==
    {"<1d"}
        \cup {ToString(n) \o "d" : n \in 1..29}
        \cup {ToString(n) \o "m" : n \in 1..11}
        \cup {ToString(y) \o "y" : y \in 1..296}
        \cup {ToString(y) \o "y " \o ToString(n) \o "m" :
                  y \in 1..296, n \in 1..11}

AgoLabels == {t \o " ago" : t \in DurationTexts}

InLabels == {"in " \o t : t \in DurationTexts}

\* C27: at one instant, for every EOL date variant with a non-zero date,
\* IsEOL() is true exactly when the relative label of formatEOL is an
\* "... ago" label and false exactly when it is an "in ..." label, also at
\* the instant of the date itself.
C27_FlagAndLabelAgree ==
    (op = "formatEOL" /\ ~eol.IsBoolean /\ eol.DateValue # ZeroTime) =>
        /\ label.relative \in AgoLabels \cup InLabels
        /\ EOLValue_IsEOL(eol, now) <=> label.relative \in AgoLabels
        /\ ~EOLValue_IsEOL(eol, now) <=> label.relative \in InLabels

(***************************************************************************)
(* Decoding of JSON null (SpecDecode).                                     *)
(***************************************************************************)
\* C28: a JSON null for an EOL, Support or LTS field is decoded like an
\* absent field: the value stays unknown (IsBoolean = false, zero
\* DateValue), so it renders with an empty relative label and an empty raw
\* value and not as a flag.
C28_NullIsUnknown ==
    (op \in {"eol", "support", "lts"} /\ fresh /\ wire = WNull) =>
        /\ ~Decoded.IsBoolean
        /\ Decoded.DateValue = ZeroTime
        /\ op = "eol" => formatEOL(eol, now) = relativeDate("", "")
        /\ op = "support" => formatSupport(support, now) = relativeDate("", "")
        /\ op \in {"eol", "support"} => formatRawValue(Decoded) = ""

====
